---------------------------- MODULE Spec2Model ----------------------------
(***************************************************************************)
(* ClaudeChatbot (backend/claudeapi.py): a conversation session manager    *)
(* over an append-only document store, with history retrieval by           *)
(* conversation id and substring search.                                   *)
(*                                                                         *)
(* Strings whose characters matter (message contents, queries) are         *)
(* sequences of one-character strings.  The wall clock is a tick counter   *)
(* that never runs backwards; a conversation id is the clock formatted     *)
(* with second resolution, a message timestamp has tick resolution.        *)
(***************************************************************************)
EXTENDS Integers, Sequences, FiniteSets, TLC

\* ------------------------------------------------------------------ bounds
MaxClock == 1          \* last clock tick of a run
TicksPerSecond == 1    \* timestamp ticks in one second of the id's resolution
MaxDocs == 3           \* documents the store holds at most in a run
MaxK == 1              \* largest top_k passed to search_conversations

\* ------------------------------------------------------------------ inputs
\* user inputs of chat
Texts == { <<"q">>, <<"Q", "\"">> }
\* texts the completion API answers with
Replies == { <<"\\", "x">> }
\* str(e) of the exceptions the completion call raises
ErrorTexts == { <<"t">> }
\* search queries
Queries == { <<"Q">>, <<"\"">> }
\* top_k values, negative ones included
TopKs == (0 - MaxK) .. MaxK

\* Python's None
None == "None"

\* ------------------------------------------------------------------ helpers
Min(a, b) == IF a <= b THEN a ELSE b
Max(a, b) == IF a >= b THEN a ELSE b

\* truthiness of an Optional[str]: None and "" are falsy
Falsy(x) == x = None \/ x = ""

\* datetime.now().strftime("%Y%m%d_%H%M%S"): the clock cut to whole seconds
strftime(t) == "20240101_00000" \o ToString(t \div TicksPerSecond)

\* datetime.now().isoformat(): the seconds, then the fraction of a second,
\* which is left out when it is zero
isoformat(t) ==
    IF t % TicksPerSecond = 0 THEN <<t \div TicksPerSecond>>
    ELSE <<t \div TicksPerSecond, t % TicksPerSecond>>

\* Python's a <= b on strings: lexicographic, a prefix before its extensions
StrLeq(a, b) ==
    LET n == Min(Len(a), Len(b))
        d == {i \in 1..n : a[i] # b[i]}
    IN IF d = {} THEN Len(a) <= Len(b)
       ELSE LET k == CHOOSE i \in d : \A j \in d : i <= j
            IN a[k] < b[k]

\* str.lower() on one character
LowerChar(c) == IF c = "Q" THEN "q" ELSE c

\* str.lower()
lower(s) == [i \in 1..Len(s) |-> LowerChar(s[i])]

\* Python's "a in b" on strings: a is a contiguous substring of b
Contains(a, b) ==
    \E i \in 0..(Len(b) - Len(a)) : \A j \in 1..Len(a) : b[i + j] = a[j]

\* Python's s[:k], negative k included
SliceTo(s, k) ==
    IF k >= 0 THEN SubSeq(s, 1, Min(k, Len(s)))
    ELSE SubSeq(s, 1, Max(Len(s) + k, 0))

\* JsonEscape with the backslash left unescaped
RECURSIVE JsonEscape_QuoteOnly(_)
JsonEscape_QuoteOnly(s) ==
    IF s = <<>> THEN <<>>
    ELSE (IF Head(s) = "\"" THEN <<"\\", Head(s)>> ELSE <<Head(s)>>)
         \o JsonEscape_QuoteOnly(Tail(s))

\* the body of a JSON string literal: quote and backslash are escaped
RECURSIVE JsonEscape(_)
JsonEscape(s) ==
    IF s = <<>> THEN <<>>
    ELSE (IF Head(s) \in {"\"", "\\"} THEN <<"\\", Head(s)>> ELSE <<Head(s)>>)
         \o JsonEscape(Tail(s))

RECURSIVE JsonUnescape(_)
JsonUnescape(s) ==
    IF s = <<>> THEN <<>>
    ELSE IF Head(s) = "\\" /\ Len(s) >= 2
         THEN <<s[2]>> \o JsonUnescape(Tail(Tail(s)))
         ELSE <<Head(s)>> \o JsonUnescape(Tail(s))

\* json.dumps(message): the content becomes a quoted, escaped string literal
json_dumps(m) ==
    [role |-> m.role,
     content |-> <<"\"">> \o JsonEscape(m.content) \o <<"\"">>,
     timestamp |-> m.timestamp]

\* json.loads(doc.content)
json_loads(d) ==
    [role |-> d.role,
     content |-> JsonUnescape(SubSeq(d.content, 2, Len(d.content) - 1)),
     timestamp |-> d.timestamp]

\* SortByTimestamp with the order reversed: newest first
RECURSIVE SortByTimestamp_Descending(_)
SortByTimestamp_Descending(s) ==
    IF s = <<>> THEN <<>>
    ELSE LET rest == SortByTimestamp_Descending(SubSeq(s, 1, Len(s) - 1))
             x == s[Len(s)]
             p == Cardinality({i \in 1..Len(rest) :
                                  StrLeq(x.timestamp, rest[i].timestamp)})
         IN SubSeq(rest, 1, p) \o <<x>> \o SubSeq(rest, p + 1, Len(rest))

\* messages.sort(key=lambda x: x["timestamp"]): stable, ascending
RECURSIVE SortByTimestamp(_)
SortByTimestamp(s) ==
    IF s = <<>> THEN <<>>
    ELSE LET rest == SortByTimestamp(SubSeq(s, 1, Len(s) - 1))
             x == s[Len(s)]
             p == Cardinality({i \in 1..Len(rest) :
                                  StrLeq(rest[i].timestamp, x.timestamp)})
         IN SubSeq(rest, 1, p) \o <<x>> \o SubSeq(rest, p + 1, Len(rest))

\* results.sort(key=lambda x: x["score"], reverse=True): stable, descending
RECURSIVE SortByScoreReverse(_)
SortByScoreReverse(s) ==
    IF s = <<>> THEN <<>>
    ELSE LET rest == SortByScoreReverse(SubSeq(s, 1, Len(s) - 1))
             x == s[Len(s)]
             p == Cardinality({i \in 1..Len(rest) : rest[i].score >= x.score})
         IN SubSeq(rest, 1, p) \o <<x>> \o SubSeq(rest, p + 1, Len(rest))

\* ------------------------------------------------------------------- state
VARIABLES
    now,                      \* the wall clock, in ticks
    current_conversation_id,  \* self.current_conversation_id
    messages,                 \* self.messages, the in-memory buffer
    document_store,           \* self.document_store, in insertion order
    ret,                      \* the last call and what it returned
    started,                  \* history: the conversations started, with their time
    sends                     \* history: the chat calls made, with their outcome

vars == <<now, current_conversation_id, messages, document_store, ret, started, sends>>

\* __init__: no conversation, an empty buffer, an empty store
Init ==
    /\ now = 0
    /\ current_conversation_id = None
    /\ messages = <<>>
    /\ document_store = <<>>
    /\ ret = [op |-> "__init__"]
    /\ started = {}
    /\ sends = <<>>

\* the message dict _store_message builds at clock reading t
Message(role, content, t) ==
    [role |-> role, content |-> content, timestamp |-> isoformat(t)]

\* the haystack Document _store_message writes for a message
Doc(conversation_id, message) ==
    [content |-> json_dumps(message),
     meta |-> [conversation_id |-> conversation_id,
               timestamp |-> message.timestamp,
               role |-> message.role]]

\* ChatConversationId without the implicit start
ChatConversationId_NoImplicitStart(cid, t) == cid

\* the id chat works under: it starts a conversation when none is active
ChatConversationId(cid, t) == IF Falsy(cid) THEN strftime(t) ELSE cid

\* the buffer chat appends to: start_new_conversation has emptied it
ChatBuffer(cid, buffer) == IF Falsy(cid) THEN <<>> ELSE buffer

\* ChatMessages with the error reply stored like a reply
ChatMessages_AlwaysReply(user_message, ok, assistant_message) ==
    <<user_message, assistant_message>>

\* the records one chat call stores: the user message, then the reply if any
ChatMessages(user_message, ok, assistant_message) ==
    IF ok THEN <<user_message, assistant_message>> ELSE <<user_message>>

\* BufferAfterStart with the buffer kept
BufferAfterStart_Kept(buffer) == buffer

\* the buffer after start_new_conversation: self.messages = []
BufferAfterStart(buffer) == <<>>

\* f"Error: {str(e)}"
ErrorReply(e) == <<"E", "r", "r", "o", "r", ":", " ">> \o e

\* the conversations started, each with the time of its first start
Started(before, id, t, by) ==
    IF \E c \in before : c.id = id THEN before
    ELSE before \cup {[id |-> id, at |-> t, by |-> by]}

\* time passes between two calls
Tick ==
    /\ now < MaxClock
    /\ now' = now + 1
    /\ UNCHANGED <<current_conversation_id, messages, document_store, ret,
                   started, sends>>

\* start_new_conversation()
start_new_conversation ==
    /\ current_conversation_id' = strftime(now)
    /\ messages' = BufferAfterStart(messages)
    /\ ret' = [op |-> "start_new_conversation", val |-> strftime(now)]
    /\ started' = Started(started, strftime(now), now, "start_new_conversation")
    /\ UNCHANGED <<now, document_store, sends>>

\* chat(user_input): d0 ticks pass between an implicit start and the user
\* message, d1 ticks while the completion API is called; the call answers
\* with a text (ok) or raises
chat(user_input, ok, text, d0, d1) ==
    LET implicit == Falsy(current_conversation_id)
        cid == ChatConversationId(current_conversation_id, now)
        t1 == now + d0
        t2 == t1 + d1
        user_message == Message("user", user_input, t1)
        assistant_message == Message("assistant", text, t2)
        stored == ChatMessages(user_message, ok, assistant_message)
    IN /\ implicit \/ d0 = 0
       /\ t2 <= MaxClock
       /\ Len(document_store) + Len(stored) <= MaxDocs
       /\ now' = t2
       /\ current_conversation_id' = cid
       /\ messages' = ChatBuffer(current_conversation_id, messages) \o stored
       /\ document_store' =
              document_store \o [i \in 1..Len(stored) |-> Doc(cid, stored[i])]
       /\ ret' = [op |-> "chat", user_input |-> user_input, ok |-> ok,
                  val |-> IF ok THEN text ELSE ErrorReply(text)]
       /\ started' = IF implicit
                     THEN Started(started, strftime(now), now, "chat")
                     ELSE started
       /\ sends' = Append(sends, [conversation_id |-> current_conversation_id',
                                  ok |-> ok,
                                  user_message |-> user_message,
                                  assistant_message |->
                                      IF ok THEN assistant_message ELSE None])

\* the documents get_all_documents(filters={"conversation_id": conv_id}) yields
FilterDocs(store, conv_id) ==
    LET Match(d) == d.meta.conversation_id = conv_id
    IN SelectSeq(store, Match)

\* the id get_conversation_history looks up
HistoryConvId(conversation_id, current) ==
    IF Falsy(conversation_id) THEN current ELSE conversation_id

\* get_conversation_history(conversation_id) on a store
HistoryOf(store, current, conversation_id) ==
    LET conv_id == HistoryConvId(conversation_id, current)
        docs == FilterDocs(store, conv_id)
    IN IF Falsy(conv_id) THEN <<>>
       ELSE SortByTimestamp([i \in 1..Len(docs) |-> json_loads(docs[i].content)])

\* the matching of one document by search_conversations
SearchMatches(query, message) == Contains(lower(query), lower(message.content))

\* SearchDocs cut to the current conversation
SearchDocs_CurrentOnly(store, current) == FilterDocs(store, current)

\* the documents search_conversations scans
SearchDocs(store, current) == store

\* search_conversations(query, top_k) on a store; the score 1.0 is 1, 0.0 is 0
SearchOf(store, current, query, top_k) ==
    LET docs == SearchDocs(store, current)
        Match(d) == SearchMatches(query, json_loads(d.content))
        hits == SelectSeq(docs, Match)
        results == [i \in 1..Len(hits) |->
                       [conversation_id |-> hits[i].meta.conversation_id,
                        message |-> json_loads(hits[i].content),
                        score |-> IF Match(hits[i]) THEN 1 ELSE 0]]
    IN SliceTo(SortByScoreReverse(results), top_k)

\* the conversation ids a caller may ask for
ConversationIds ==
    {None, ""} \cup {strftime(t) : t \in 0..MaxClock}

\* get_conversation_history(conversation_id)
get_conversation_history(conversation_id) ==
    /\ ret' = [op |-> "get_conversation_history",
               conversation_id |-> conversation_id,
               val |-> HistoryOf(document_store, current_conversation_id,
                                 conversation_id)]
    /\ UNCHANGED <<now, current_conversation_id, messages, document_store,
                   started, sends>>

\* search_conversations(query, top_k)
search_conversations(query, top_k) ==
    /\ ret' = [op |-> "search_conversations", query |-> query, top_k |-> top_k,
               val |-> SearchOf(document_store, current_conversation_id,
                                query, top_k)]
    /\ UNCHANGED <<now, current_conversation_id, messages, document_store,
                   started, sends>>

Next ==
    \/ Tick
    \/ start_new_conversation
    \/ \E user_input \in Texts, text \in Replies, d0 \in 0..1, d1 \in 0..1 :
           chat(user_input, TRUE, text, d0, d1)
    \/ \E user_input \in Texts, e \in ErrorTexts, d0 \in 0..1, d1 \in 0..1 :
           chat(user_input, FALSE, e, d0, d1)
    \/ \E conversation_id \in ConversationIds :
           get_conversation_history(conversation_id)
    \/ \E query \in Queries, top_k \in TopKs :
           search_conversations(query, top_k)

Spec == Init /\ [][Next]_vars

\* ------------------------------------------------------------------ claims
\* the records one send has appended, as they were created
Appended(send) ==
    IF send.ok THEN <<send.user_message, send.assistant_message>>
    ELSE <<send.user_message>>

\* the records the sends of log under conversation id stored, pairs only or all
RECURSIVE RecordsOf(_, _, _)
RecordsOf(log, id, successful_only) ==
    IF log = <<>> THEN <<>>
    ELSE (IF Head(log).conversation_id = id /\ (Head(log).ok \/ ~successful_only)
          THEN Appended(Head(log)) ELSE <<>>)
         \o RecordsOf(Tail(log), id, successful_only)

\* every record ever appended, with its conversation id, in the order of appending
RECURSIVE AllRecords(_)
AllRecords(log) ==
    IF log = <<>> THEN <<>>
    ELSE LET a == Appended(Head(log))
         IN [i \in 1..Len(a) |->
                [conversation_id |-> Head(log).conversation_id, message |-> a[i]]]
            \o AllRecords(Tail(log))

NonDecreasing(ms) ==
    \A i, j \in 1..Len(ms) : i < j => StrLeq(ms[i].timestamp, ms[j].timestamp)

IsHistoryCall == ret.op = "get_conversation_history"
IsSearchCall == ret.op = "search_conversations"

\* C1 (as stated): history() returns exactly the user/assistant pairs of the
\* successful sends of the current conversation, in non-decreasing timestamp
\* order, and no other record.
C1_PairsOfSuccessfulSendsOnly ==
    (IsHistoryCall /\ ret.conversation_id = None) =>
        /\ ret.val = RecordsOf(sends, current_conversation_id, TRUE)
        /\ NonDecreasing(ret.val)

\* C1 (amended): history() returns exactly the records stored under the current
\* conversation id, in storage order and non-decreasing timestamp order: for
\* every send made under that id its user message, immediately followed by the
\* assistant reply of that send when, and only when, the send succeeded.
C1_RecordsOfAllSends ==
    (IsHistoryCall /\ ret.conversation_id = None) =>
        /\ ret.val = RecordsOf(sends, current_conversation_id, FALSE)
        /\ NonDecreasing(ret.val)

\* a history() that holds a pair of a successful send and the lone user
\* message of a failed one
C1_Witness ==
    /\ IsHistoryCall /\ ret.conversation_id = None
    /\ \E i, j \in 1..Len(sends) :
           /\ sends[i].ok /\ ~sends[j].ok
           /\ sends[i].conversation_id = current_conversation_id
           /\ sends[j].conversation_id = current_conversation_id
    /\ Len(ret.val) = 3

\* C2: right after start_new_conversation, with no send in between, history()
\* is empty.
C2_HistoryEmptyAfterStart ==
    ret.op = "start_new_conversation" =>
        HistoryOf(document_store, current_conversation_id, None) = <<>>

\* C3: search(q, k) with k <= 0 returns the empty sequence.
C3_NonPositiveLimitIsEmpty ==
    (IsSearchCall /\ ret.top_k <= 0) => ret.val = <<>>

\* C4: search(q, k) returns at most k entries (none for a negative k), and the
\* content of every returned entry contains q case-insensitively.
C4_AtMostKAndAllMatch ==
    IsSearchCall =>
        /\ Len(ret.val) <= Max(ret.top_k, 0)
        /\ \A i \in 1..Len(ret.val) :
               Contains(lower(ret.query), lower(ret.val[i].message.content))

\* C5: a send whose completion call fails returns a text starting with
\* "Error: ", has stored the user message, and adds no assistant record to the
\* store or the buffer.
C5_FailedSend ==
    [][(Len(sends') = Len(sends) + 1 /\ ~ret'.ok) =>
          LET n == Len(document_store)
              doc == document_store'[n + 1]
          IN /\ Len(ret'.val) >= 7
             /\ SubSeq(ret'.val, 1, 7) = <<"E", "r", "r", "o", "r", ":", " ">>
             /\ Len(document_store') = n + 1
             /\ SubSeq(document_store', 1, n) = document_store
             /\ doc.meta.role = "user"
             /\ doc.meta.conversation_id = current_conversation_id'
             /\ json_loads(doc.content).role = "user"
             /\ json_loads(doc.content).content = ret'.user_input
             /\ Len(messages') = Len(messages) + 1
             /\ SubSeq(messages', 1, Len(messages)) = messages
             /\ messages'[Len(messages')].role = "user"
             /\ messages'[Len(messages')].content = ret'.user_input
      ]_vars

\* a failed send in a conversation that already holds a reply
C5_Witness ==
    /\ ret.op = "chat" /\ ~ret.ok
    /\ Len(sends) >= 2 /\ sends[1].ok
    /\ document_store[Len(document_store)].meta.role = "user"

\* C6: every record ever appended for a conversation id is returned by
\* history(id), role, content and timestamp unchanged, in every later state.
C6_AppendedRecordsStayQueryable ==
    \A i \in 1..Len(AllRecords(sends)) :
        LET r == AllRecords(sends)[i]
            h == HistoryOf(document_store, current_conversation_id, r.conversation_id)
        IN \E j \in 1..Len(h) : h[j] = r.message

\* a record of an abandoned conversation, with an escaped character in its
\* content, after later calls
C6_Witness ==
    /\ IsSearchCall
    /\ \E i \in 1..Len(sends) :
           /\ sends[i].conversation_id # current_conversation_id
           /\ sends[i].ok
           /\ \E k \in 1..Len(sends[i].assistant_message.content) :
                  sends[i].assistant_message.content[k] = "\\"

\* C7: every stored record carries the id of a conversation started before the
\* record was created, never a missing id, and the timestamps of one
\* conversation id are non-decreasing in storage order.
C7_StoreInvariant ==
    /\ \A i \in 1..Len(document_store) :
           LET d == document_store[i]
           IN /\ ~Falsy(d.meta.conversation_id)
              /\ \E c \in started :
                     /\ c.id = d.meta.conversation_id
                     /\ StrLeq(isoformat(c.at), d.meta.timestamp)
    /\ \A i, j \in 1..Len(document_store) :
           (i < j /\ document_store[i].meta.conversation_id
                       = document_store[j].meta.conversation_id)
               => StrLeq(document_store[i].meta.timestamp,
                         document_store[j].meta.timestamp)

\* a conversation that a send started implicitly, holding records of two times
C7_Witness ==
    \E c \in started :
        /\ c.by = "chat"
        /\ \E i, j \in 1..Len(document_store) :
               /\ document_store[i].meta.conversation_id = c.id
               /\ document_store[j].meta.conversation_id = c.id
               /\ i < j
               /\ document_store[i].meta.timestamp # document_store[j].meta.timestamp

\* C8: history(id) returns all records of the given id and no other, sorted
\* ascending by timestamp; with no id given it uses the current id; it is empty
\* when no conversation is active and no id is given, or when no record
\* matches the id.
C8_HistoryById ==
    IsHistoryCall =>
        LET id == IF ret.conversation_id = None
                  THEN current_conversation_id ELSE ret.conversation_id
        IN /\ ret.val = RecordsOf(sends, id, FALSE)
           /\ NonDecreasing(ret.val)
           /\ id = None => ret.val = <<>>

\* the positions of the appended records whose content contains q,
\* case-insensitively
MatchingPositions(q) ==
    {i \in 1..Len(AllRecords(sends)) :
        Contains(lower(q), lower(AllRecords(sends)[i].message.content))}

C10_BufferMirrorsStore ==
    /\ [](/\ Len(messages) <= Len(document_store)
          /\ \A j \in 1..Len(messages) :
                 LET d == document_store[Len(document_store) - Len(messages) + j]
                 IN /\ json_loads(d.content) = messages[j]
                    /\ d.meta.conversation_id = current_conversation_id
                    /\ d.meta.timestamp = messages[j].timestamp
                    /\ d.meta.role = messages[j].role)
    /\ [][/\ (ret' # ret /\ ret'.op = "start_new_conversation") => messages' = <<>>
          /\ (ret' # ret /\ ret'.op \in {"get_conversation_history",
                                         "search_conversations"})
                 => UNCHANGED <<messages, document_store, current_conversation_id>>
       ]_vars

\* a buffer shorter than the store, after a search
C10_Witness ==
    /\ IsSearchCall
    /\ Len(messages) >= 2
    /\ Len(messages) < Len(document_store)

=============================================================================
